---- MODULE Spec2Model ----
(***************************************************************************)
(* WebsiteMapper crawl engine: server/routes.ts (request handlers, the     *)
(* startCrawling task, link extraction) over server/storage.ts             *)
(* (MemStorage).  The crawl task is a sequence of segments, one per await: *)
(* a segment runs from the resumption after one await up to and including  *)
(* the call it awaits next.  A storage call takes effect when it is made   *)
(* (MemStorage methods contain no await) or rejects without effect; the    *)
(* rejection is seen by the task at its resumption.  The progress, stop    *)
(* and export handlers are one action each: their storage reads are taken  *)
(* at one instant.                                                         *)
(***************************************************************************)
EXTENDS Integers, Sequences, FiniteSets, TLC

\* ---------------------------------------------------------------- bounds
MaxPagesBound == 3      \* largest maxPages a start request carries
MaxDepthBound == 2      \* largest maxDepth a start request carries
MaxFaults == 1          \* storage calls of the crawl task that may reject
MaxStops == 1           \* stop requests issued
MaxFaultsTwo == 0       \* storage calls that may reject while two sessions run

SessionIds == {1}       \* ids handed out by createCrawlSession

\* ------------------------------------------- limits of startCrawlSchema
MinPages == 1
MaxPagesLimit == 10000
MinDepth == 1
MaxDepthLimit == 20

\* ------------------------------------------------------- nullable values
Null == <<>>
Some(v) == <<v>>
\* JavaScript `x || null` for numbers and strings
OrNullNum(n) == IF n = 0 THEN Null ELSE Some(n)
OrNullStr(str) == IF str = "" THEN Null ELSE Some(str)

\* ------------------------------------------------------------------ URLs
\* A URL is its hostname (sequence of labels), its path (sequence of
\* segments, <<>> is "/") and its fragment ("" when absent).
Url(h, p, f) == [host |-> h, path |-> p, hash |-> f]

HostEx == <<"example", "com">>
HostWww == <<"www", "example", "com">>
HostOther == <<"other", "com">>

SeedUrl == Url(HostEx, <<>>, "")
UrlA == Url(HostWww, <<"a">>, "")
UrlB == Url(HostEx, <<"b">>, "")
UrlC == Url(HostEx, <<"c">>, "")
UrlX == Url(HostOther, <<"x">>, "")
UrlD == Url(HostEx, <<"d">>, "")
UrlPdf == Url(HostEx, <<"doc.PDF">>, "")
UrlE == Url(HostEx, <<"e">>, "")
\* a string that is no URL: nothing `new URL` accepts as scheme and host
BadUrl == Url(<<>>, <<"not a url">>, "")

\* hrefs as they stand in a document
HrefAbs(u) == [kind |-> "abs", url |-> u]
HrefRel(p, f) == [kind |-> "rel", path |-> p, hash |-> f]
HrefScheme == [kind |-> "scheme"]

\* hostname.replace(/^www\./, '')
StripWww(h) == IF Len(h) > 0 /\ h[1] = "www" THEN Tail(h) ELSE h

\* lower-cased extension of the last path segment
ExtOf(p) ==
  IF p = <<>> THEN ""
  ELSE CASE p[Len(p)] = "doc.PDF" -> ".pdf"
         [] p[Len(p)] = "logo.png" -> ".png"
         [] OTHER -> ""

SkipExtensions == {".jpg", ".jpeg", ".png", ".gif", ".svg", ".doc", ".docx",
                   ".zip", ".mp3", ".mp4", ".avi"}

\* new URL(href, baseUrl): a relative reference replaces the last segment of
\* the base path; the empty reference path keeps the base path.
Resolve(href, base) ==
  IF href.kind = "abs" THEN href.url
  ELSE Url(base.host,
           IF href.path = <<>> THEN base.path
           ELSE (IF base.path = <<>> THEN <<>>
                 ELSE SubSeq(base.path, 1, Len(base.path) - 1)) \o href.path,
           href.hash)

WithoutHash(u) == Url(u.host, u.path, "")

InSeq(x, sq) == \E i \in 1..Len(sq) : sq[i] = x
\* Set.add followed by Array.from: first-insertion order, no repeats
AddOnce(sq, x) == IF InSeq(x, sq) THEN sq ELSE Append(sq, x)

\* one pass of the $('a[href]').each callback
ClassifyHref(href, baseUrl) ==
  IF href.kind = "scheme" THEN [class |-> "skip"]
  ELSE LET url == Resolve(href, baseUrl)
       IN IF StripWww(url.host) # StripWww(baseUrl.host) THEN [class |-> "skip"]
          ELSE IF WithoutHash(url) = WithoutHash(baseUrl) /\ url.hash # ""
            THEN [class |-> "skip"]
          ELSE IF url.hash # "" /\ (url.path = <<>> \/ url.path = baseUrl.path)
            THEN [class |-> "skip"]
          ELSE IF ExtOf(url.path) = ".pdf"
            THEN [class |-> "pdf", url |-> WithoutHash(url)]
          ELSE IF ExtOf(url.path) \in SkipExtensions THEN [class |-> "skip"]
          ELSE [class |-> "link", url |-> WithoutHash(url)]

RECURSIVE ExtractFrom(_, _, _)
ExtractFrom(hrefs, baseUrl, acc) ==
  IF hrefs = <<>> THEN acc
  ELSE LET c == ClassifyHref(Head(hrefs), baseUrl)
       IN ExtractFrom(Tail(hrefs), baseUrl,
            CASE c.class = "link" -> [acc EXCEPT !.links = AddOnce(@, c.url)]
              [] c.class = "pdf" -> [acc EXCEPT !.pdfLinks = AddOnce(@, c.url)]
              [] OTHER -> acc)

extractLinksAndPdfs(hrefs, baseUrl) ==
  ExtractFrom(hrefs, baseUrl, [links |-> <<>>, pdfLinks |-> <<>>])

\* cheerio.load(data) throws: data is no document. A body that is a JSON
\* number reaches the crawler as a number (axios parses a body that is JSON
\* whatever its content type), which cheerio can neither parse nor adopt as a
\* node.
CheerioLoadThrows(data) == data = "123"

\* ------------------------------------------------------------- the site
Response(st, ct, body, text, hrefs) ==
  [status |-> st, ctype |-> ct, body |-> body, text |-> text, hrefs |-> hrefs]

Site(u) ==
  CASE u = SeedUrl ->
         Response(200, "text/html", "<root>", "welcome",
                  <<HrefAbs(UrlA), HrefAbs(UrlX),
                    HrefRel(<<"doc.PDF">>, ""), HrefRel(<<>>, "top"),
                    HrefScheme, HrefRel(<<"logo.png">>, "")>>)
    [] u = UrlA ->
         Response(200, "text/html", "<a>", "same text",
                  <<HrefAbs(SeedUrl), HrefRel(<<"b">>, "frag"), HrefAbs(UrlC)>>)
    [] u = UrlB -> Response(404, "text/html", "<b>", "not found", <<>>)
    [] u = UrlC -> Response(200, "application/json", "same text", "", <<>>)
    [] u = UrlX ->
         Response(200, "text/html", "<x>", "welcome",
                  <<HrefAbs(Url(HostOther, <<"y">>, "")), HrefAbs(SeedUrl),
                    HrefAbs(UrlD)>>)
    [] u = UrlD -> Response(200, "text/html", "<d>", "deep", <<HrefAbs(UrlA)>>)
    [] u = UrlPdf -> Response(200, "application/pdf", "%PDF", "", <<>>)
    [] u = UrlE -> Response(200, "text/html", "123", "", <<>>)
    [] OTHER -> Response(404, "", "", "", <<>>)

\* what GET {origin}/sitemap.xml may contribute: nothing (absent, timed out,
\* malformed) or the <loc> entries of the url set
Sitemaps == {<<>>, <<SeedUrl, UrlPdf, UrlX>>}


\* ----------------------------------------------------------------- state
VARIABLES
  crawlSessions,     \* MemStorage.crawlSessions: id -> CrawlSession
  crawledPages,      \* MemStorage.crawledPages, in id order
  pdfLinks,          \* MemStorage.pdfLinks: sessionId -> set of PDF URLs
  currentSessionId,  \* MemStorage.currentSessionId
  currentPageId,     \* MemStorage.currentPageId
  activeCrawls,      \* routes.ts activeCrawls: sessionId -> {shouldStop, currentUrl}
  task,              \* per session: where startCrawling is suspended, its locals
  faultsLeft,        \* storage rejections the environment may still produce
  stopsLeft,         \* stop requests the client may still send
  lastResponse,      \* the last HTTP response sent by a handler
  stopCalls,         \* per session: statuses the session had when a stop request reached it
  flagPages          \* per session: number of its page records when its flag was first set

vars == <<crawlSessions, crawledPages, pdfLinks, currentSessionId,
          currentPageId, activeCrawls, task, faultsLeft, stopsLeft,
          lastResponse, stopCalls, flagPages>>

\* the part of the state the crawl task reads and writes, as one value
World ==
  [crawlSessions |-> crawlSessions, crawledPages |-> crawledPages,
   pdfLinks |-> pdfLinks, currentPageId |-> currentPageId,
   activeCrawls |-> activeCrawls, task |-> task, faultsLeft |-> faultsLeft]

Apply(g) ==
  /\ crawlSessions' = g.crawlSessions
  /\ crawledPages' = g.crawledPages
  /\ pdfLinks' = g.pdfLinks
  /\ currentPageId' = g.currentPageId
  /\ activeCrawls' = g.activeCrawls
  /\ task' = g.task
  /\ faultsLeft' = g.faultsLeft

Put(f, k, v) == [x \in DOMAIN f \cup {k} |-> IF x = k THEN v ELSE f[x]]
Remove(f, k) == [x \in DOMAIN f \ {k} |-> f[x]]
\* { ...session, ...updates }
Merge(r, u) == [fld \in DOMAIN r |-> IF fld \in DOMAIN u THEN u[fld] ELSE r[fld]]

IdleTask ==
  [pc |-> "idle", exc |-> FALSE, startUrl |-> SeedUrl, maxPages |-> 1,
   maxDepth |-> 1, visited |-> {}, queued |-> {}, queue |-> <<>>,
   totalPages |-> 0, successfulPages |-> 0, errorPages |-> 0,
   current |-> Null, resp |-> Null, pdfTodo |-> <<>>, links |-> <<>>,
   sitemapUrls |-> <<>>, rejected |-> {}, fetched |-> <<>>]

\* the state after construction, with room for the sessions of `ids`
InitOf(ids, faults) ==
  /\ crawlSessions = <<>>
  /\ crawledPages = <<>>
  /\ pdfLinks = <<>>
  /\ currentSessionId = 1
  /\ currentPageId = 1
  /\ activeCrawls = <<>>
  /\ task = [s \in ids |-> IdleTask]
  /\ faultsLeft = faults
  /\ stopsLeft = MaxStops
  /\ lastResponse = [op |-> "none"]
  /\ stopCalls = [s \in ids |-> {}]
  /\ flagPages = [s \in ids |-> {}]

Init == InitOf(SessionIds, MaxFaults)

\* ------------------------------------------------------------ MemStorage
createCrawlSession(cs, id, insertSession) ==
  Put(cs, id,
      [url |-> insertSession.url, maxPages |-> insertSession.maxPages,
       maxDepth |-> insertSession.maxDepth, status |-> "pending",
       totalPages |-> 0, successfulPages |-> 0, errorPages |-> 0,
       completedAt |-> Null, error |-> Null, currentUrl |-> Null])

updateCrawlSession(cs, id, updates) ==
  IF id \notin DOMAIN cs THEN cs ELSE [cs EXCEPT ![id] = Merge(@, updates)]

\* createCrawledPage storing the record under its URL: a record for a URL the
\* session already has a record of takes that record's place
createCrawledPageByUrl(pages, id, insertPage) ==
  LET page == [id |-> id, url |-> insertPage.url, sessionId |-> insertPage.sessionId,
               statusCode |-> OrNullNum(insertPage.statusCode),
               contentType |-> OrNullStr(insertPage.contentType),
               depth |-> insertPage.depth, contentHash |-> insertPage.contentHash]
      same(i) == pages[i].sessionId = page.sessionId /\ pages[i].url = page.url
  IN IF \E i \in 1..Len(pages) : same(i)
     THEN [i \in 1..Len(pages) |-> IF same(i) THEN page ELSE pages[i]]
     ELSE Append(pages, page)

createCrawledPage(pages, id, insertPage) ==
  Append(pages,
         [id |-> id, url |-> insertPage.url, sessionId |-> insertPage.sessionId,
          statusCode |-> OrNullNum(insertPage.statusCode),
          contentType |-> OrNullStr(insertPage.contentType),
          depth |-> insertPage.depth, contentHash |-> insertPage.contentHash])

addPdfLink(pl, sessionId, url) ==
  Put(pl, sessionId, (IF sessionId \in DOMAIN pl THEN pl[sessionId] ELSE {}) \cup {url})

getCrawledPagesBySession(pages, sessionId) ==
  SelectSeq(pages, LAMBDA p : p.sessionId = sessionId)

\* getUniqueContentHashes with the `&& page.contentHash` of the filter left out
getUniqueContentHashesUnfiltered(pages, sessionId) ==
  {p.contentHash :
     p \in {pages[i] : i \in {j \in 1..Len(pages) : pages[j].sessionId = sessionId}}}

getUniqueContentHashes(pages, sessionId) ==
  {p.contentHash[1] :
     p \in {pages[i] : i \in {j \in 1..Len(pages) :
                pages[j].sessionId = sessionId /\ pages[j].contentHash # Null}}}

getPdfLinkCount(pl, sessionId) ==
  IF sessionId \in DOMAIN pl THEN Cardinality(pl[sessionId]) ELSE 0

getPdfLinks(pl, sessionId) ==
  IF sessionId \in DOMAIN pl THEN pl[sessionId] ELSE {}

\* a storage call of the crawl task: it takes effect, or it rejects and the
\* task sees the exception when it resumes at pc (task.rejected keeps the
\* names of the calls that rejected)
StorageCall(g, s, fault, op, gEffect, pc) ==
  IF fault
  THEN [g EXCEPT !.faultsLeft = @ - 1, !.task[s].exc = TRUE, !.task[s].pc = pc,
                 !.task[s].rejected = @ \cup {op}]
  ELSE [gEffect EXCEPT !.task[s].exc = FALSE, !.task[s].pc = pc]

Counters(t) ==
  [totalPages |-> t.totalPages, successfulPages |-> t.successfulPages,
   errorPages |-> t.errorPages]

\* ------------------------------------------------- startCrawling segments
\* Each operator maps the world g to the world at the task's next await.
\* `fault` says whether the storage call that ends the segment rejects.

ShouldStop(g, s) == s \in DOMAIN g.activeCrawls /\ g.activeCrawls[s].shouldStop

\* FinalSegment with status and completedAt left out of the final update
FinalSegmentCountersOnly(g, s, fault) ==
  LET t == g.task[s]
  IN StorageCall(g, s, fault, "updateCrawlSession",
       [g EXCEPT !.crawlSessions = updateCrawlSession(@, s, Counters(t))],
       "finalUpdated")

\* routes.ts 324-334: final status and the call of the final update
FinalSegment(g, s, fault) ==
  LET t == g.task[s]
      finalStatus == IF ShouldStop(g, s) THEN "stopped" ELSE "completed"
  IN StorageCall(g, s, fault, "updateCrawlSession",
       [g EXCEPT !.crawlSessions =
          updateCrawlSession(@, s,
            [status |-> finalStatus, completedAt |-> Some("date")] @@ Counters(t))],
       "finalUpdated")

\* LoopScan taking the entry pushed last (queue.pop) instead of queue.shift
RECURSIVE LoopScanLifo(_, _, _)
LoopScanLifo(queue, t, stop) ==
  IF ~(Len(queue) > 0 /\ t.totalPages < t.maxPages) THEN [exit |-> TRUE, queue |-> queue]
  ELSE IF stop THEN [exit |-> TRUE, queue |-> queue]
  ELSE LET current == queue[Len(queue)]
           rest == SubSeq(queue, 1, Len(queue) - 1)
       IN IF current.url \in t.visited \/ current.depth > t.maxDepth
          THEN LoopScanLifo(rest, t, stop)
          ELSE [exit |-> FALSE, queue |-> rest, current |-> current]

\* routes.ts 189-198: the entries the loop head drops before it either
\* leaves the loop or has an entry to fetch
RECURSIVE LoopScan(_, _, _)
LoopScan(queue, t, stop) ==
  IF ~(Len(queue) > 0 /\ t.totalPages < t.maxPages) THEN [exit |-> TRUE, queue |-> queue]
  ELSE IF stop THEN [exit |-> TRUE, queue |-> queue]
  ELSE LET current == Head(queue)
       IN IF current.url \in t.visited \/ current.depth > t.maxDepth
          THEN LoopScan(Tail(queue), t, stop)
          ELSE [exit |-> FALSE, queue |-> Tail(queue), current |-> current]

\* routes.ts 189-215: loop condition, stop check, dequeue, mark visited,
\* publish currentUrl, issue the GET; or leave the loop (324-334)
LoopHead(g, s, fault) ==
  LET t == g.task[s]
      scan == LoopScan(t.queue, t, ShouldStop(g, s))
  IN IF scan.exit
     THEN FinalSegment([g EXCEPT !.task[s].queue = scan.queue], s, fault)
     ELSE [g EXCEPT
             !.task[s].queue = scan.queue,
             !.task[s].current = Some(scan.current),
             !.task[s].visited = @ \cup {scan.current.url},
             !.task[s].fetched = Append(@, scan.current.url),
             !.task[s].pc = "fetching",
             !.activeCrawls =
                IF s \in DOMAIN @
                THEN [@ EXCEPT ![s].currentUrl = scan.current.url] ELSE @]

\* CatchSegment with the errorPages increment of line 302 left out
CatchSegmentNoErrorCount(g, s, fault) ==
  LET t == g.task[s]
      cur == t.current[1]
      g1 == [g EXCEPT !.task[s].totalPages = @ + 1,
                      !.task[s].resp = Null,
                      !.task[s].pdfTodo = <<>>,
                      !.task[s].links = <<>>]
  IN StorageCall(g1, s, fault, "createCrawledPage",
       [g1 EXCEPT
          !.crawledPages = createCrawledPage(@, g1.currentPageId,
             [sessionId |-> s, url |-> cur.url, statusCode |-> 0,
              contentType |-> "", depth |-> cur.depth, contentHash |-> Null]),
          !.currentPageId = @ + 1],
       "catchPageCreated")

\* routes.ts 301-314: the catch handler up to its createCrawledPage call
CatchSegment(g, s, fault) ==
  LET t == g.task[s]
      cur == t.current[1]
      g1 == [g EXCEPT !.task[s].errorPages = @ + 1,
                      !.task[s].totalPages = @ + 1,
                      !.task[s].resp = Null,
                      !.task[s].pdfTodo = <<>>,
                      !.task[s].links = <<>>]
  IN StorageCall(g1, s, fault, "createCrawledPage",
       [g1 EXCEPT
          !.crawledPages = createCrawledPage(@, g1.currentPageId,
             [sessionId |-> s, url |-> cur.url, statusCode |-> 0,
              contentType |-> "", depth |-> cur.depth, contentHash |-> Null]),
          !.currentPageId = @ + 1],
       "catchPageCreated")

\* routes.ts 218-250: the content hash of a response
Sha256(content) == <<"sha256", content>>

\* ContentHash with the status test of line 220 left out
ContentHashAnyStatus(resp) ==
  IF resp.body # ""
  THEN IF resp.ctype = "text/html"
       THEN (IF CheerioLoadThrows(resp.body) THEN Null
             ELSE IF resp.text # "" THEN Some(Sha256(resp.text)) ELSE Null)
       ELSE Some(Sha256(resp.body))
  ELSE Null

\* an exception inside the hash block is caught there (246-249): no hash
ContentHash(resp) ==
  IF resp.body # "" /\ resp.status >= 200 /\ resp.status < 300
  THEN IF resp.ctype = "text/html"
       THEN (IF CheerioLoadThrows(resp.body) THEN Null
             ELSE IF resp.text # "" THEN Some(Sha256(resp.text)) ELSE Null)
       ELSE Some(Sha256(resp.body))
  ELSE Null

\* routes.ts 216-261: a response arrived; hash it and call createCrawledPage
ResponseSegment(g, s, resp, fault) ==
  LET t == g.task[s]
      cur == t.current[1]
      g1 == [g EXCEPT !.task[s].resp = Some(resp)]
  IN StorageCall(g1, s, fault, "createCrawledPage",
       [g1 EXCEPT
          !.crawledPages = createCrawledPage(@, g1.currentPageId,
             [sessionId |-> s, url |-> cur.url, statusCode |-> resp.status,
              contentType |-> resp.ctype, depth |-> cur.depth,
              contentHash |-> ContentHash(resp)]),
          !.currentPageId = @ + 1],
       "pageCreated")

\* EnqueueLinks pushing every link with the depth of the page it was found on
RECURSIVE EnqueueLinksSameDepth(_, _, _)
EnqueueLinksSameDepth(t, links, depth) ==
  IF links = <<>> THEN t
  ELSE LET link == Head(links)
       IN EnqueueLinksSameDepth(
            IF link \notin t.visited /\ link \notin t.queued
               /\ Len(t.queue) + t.totalPages < t.maxPages
            THEN [t EXCEPT !.queue = Append(@, [url |-> link, depth |-> depth - 1]),
                           !.queued = @ \cup {link}]
            ELSE t,
            Tail(links), depth)

\* EnqueueLinks without the visited and queued tests
RECURSIVE EnqueueLinksNoMembership(_, _, _)
EnqueueLinksNoMembership(t, links, depth) ==
  IF links = <<>> THEN t
  ELSE LET link == Head(links)
       IN EnqueueLinksNoMembership(
            IF Len(t.queue) + t.totalPages < t.maxPages
            THEN [t EXCEPT !.queue = Append(@, [url |-> link, depth |-> depth]),
                           !.queued = @ \cup {link}]
            ELSE t,
            Tail(links), depth)

\* routes.ts 277-282: links.forEach
RECURSIVE EnqueueLinks(_, _, _)
EnqueueLinks(t, links, depth) ==
  IF links = <<>> THEN t
  ELSE LET link == Head(links)
       IN EnqueueLinks(
            IF link \notin t.visited /\ link \notin t.queued
               /\ Len(t.queue) + t.totalPages < t.maxPages
            THEN [t EXCEPT !.queue = Append(@, [url |-> link, depth |-> depth]),
                           !.queued = @ \cup {link}]
            ELSE t,
            Tail(links), depth)

\* routes.ts 288-293: the call that persists the counters
UpdateStatsSegment(g, s, fault) ==
  LET g1 == [g EXCEPT !.task[s].resp = Null, !.task[s].links = <<>>,
                      !.task[s].pdfTodo = <<>>]
  IN StorageCall(g1, s, fault, "updateCrawlSession",
       [g1 EXCEPT !.crawlSessions = updateCrawlSession(@, s, Counters(g1.task[s]))],
       "statsUpdated")

\* routes.ts 272-282: the next addPdfLink call, or, after the last one, the
\* enqueueing of the links followed by the counter update
PdfSegment(g, s, fault) ==
  LET t == g.task[s]
  IN IF t.pdfTodo # <<>>
     THEN StorageCall([g EXCEPT !.task[s].pdfTodo = Tail(@)], s, fault, "addPdfLink",
            [g EXCEPT !.task[s].pdfTodo = Tail(@),
                      !.pdfLinks = addPdfLink(@, s, Head(t.pdfTodo))],
            "pdfAdded")
     ELSE UpdateStatsSegment(
            [g EXCEPT !.task[s] = EnqueueLinks(t, t.links, t.current[1].depth + 1)],
            s, fault)

\* CountSegment extracting links also from a page whose depth equals maxDepth
CountSegmentDepthInclusive(g, s, fault) ==
  LET t == g.task[s]
      resp == t.resp[1]
      cur == t.current[1]
      g1 == [g EXCEPT !.task[s].totalPages = @ + 1]
  IN IF resp.status >= 200 /\ resp.status < 300
     THEN LET g2 == [g1 EXCEPT !.task[s].successfulPages = @ + 1]
          IN IF cur.depth <= t.maxDepth /\ resp.ctype = "text/html"
             THEN IF CheerioLoadThrows(resp.body)
                  THEN CatchSegment(g2, s, fault)
                  ELSE LET ex == extractLinksAndPdfs(resp.hrefs, t.startUrl)
                       IN PdfSegment([g2 EXCEPT !.task[s].pdfTodo = ex.pdfLinks,
                                                !.task[s].links = ex.links], s, fault)
             ELSE UpdateStatsSegment(g2, s, fault)
     ELSE UpdateStatsSegment([g1 EXCEPT !.task[s].errorPages = @ + 1], s, fault)

\* routes.ts 263-293: after createCrawledPage returned. An exception of the
\* cheerio.load call in extractLinksAndPdfs (374) is caught by nothing inside
\* the function: it reaches the catch of the iteration (301).
CountSegment(g, s, fault) ==
  LET t == g.task[s]
      resp == t.resp[1]
      cur == t.current[1]
      g1 == [g EXCEPT !.task[s].totalPages = @ + 1]
  IN IF resp.status >= 200 /\ resp.status < 300
     THEN LET g2 == [g1 EXCEPT !.task[s].successfulPages = @ + 1]
          IN IF cur.depth < t.maxDepth /\ resp.ctype = "text/html"
             THEN IF CheerioLoadThrows(resp.body)
                  THEN CatchSegment(g2, s, fault)
                  ELSE LET ex == extractLinksAndPdfs(resp.hrefs, t.startUrl)
                       IN PdfSegment([g2 EXCEPT !.task[s].pdfTodo = ex.pdfLinks,
                                                !.task[s].links = ex.links], s, fault)
             ELSE UpdateStatsSegment(g2, s, fault)
     ELSE UpdateStatsSegment([g1 EXCEPT !.task[s].errorPages = @ + 1], s, fault)

\* ------------------------------------------------------------- actions
FaultChoices == IF faultsLeft > 0 THEN BOOLEAN ELSE {FALSE}

\* one segment of the crawl task: g is the world the segment leaves, fault
\* whether the environment made the storage call that ends it reject
TaskStep(g, fault) ==
  /\ fault => g.faultsLeft < faultsLeft
  /\ Apply(g)
  /\ UNCHANGED <<currentSessionId, stopsLeft, lastResponse, stopCalls, flagPages>>

\* z.string().url()
IsUrl(u) == u.host # <<>>

\* startCrawlSchema with the .max(20) of maxDepth left out
startCrawlSchemaNoDepthMax(body) ==
  /\ IsUrl(body.url)
  /\ body.maxPages # Null
  /\ body.maxPages[1] >= MinPages /\ body.maxPages[1] <= MaxPagesLimit
  /\ body.maxDepth # Null
  /\ body.maxDepth[1] >= MinDepth

\* startCrawlSchema.parse(req.body) returns (does not throw)
startCrawlSchema(body) ==
  /\ IsUrl(body.url)
  /\ body.maxPages # Null
  /\ body.maxPages[1] >= MinPages /\ body.maxPages[1] <= MaxPagesLimit
  /\ body.maxDepth # Null
  /\ body.maxDepth[1] >= MinDepth /\ body.maxDepth[1] <= MaxDepthLimit

StartBody(url, maxPages, maxDepth) ==
  [url |-> url, maxPages |-> maxPages, maxDepth |-> maxDepth]

\* request bodies a client may also send: a malformed url, maxPages absent,
\* below or above its limits, maxDepth below or above its limits
OtherBodies ==
  <<StartBody(BadUrl, Some(MinPages), Some(MinDepth)),
    StartBody(SeedUrl, Null, Some(MinDepth)),
    StartBody(SeedUrl, Some(MinPages - 1), Some(MinDepth)),
    StartBody(SeedUrl, Some(MaxPagesLimit + 1), Some(MinDepth)),
    StartBody(SeedUrl, Some(MinPages), Some(MinDepth - 1)),
    StartBody(SeedUrl, Some(MinPages), Some(MaxDepthLimit + 1))>>

\* routes.ts 16-20 and 25: the createCrawlSession call, and the crawl task
\* that startCrawling(session.id, url, maxPages, maxDepth) will run
CreateSession(url, maxPages, maxDepth) ==
  LET id == currentSessionId
  IN /\ id \in DOMAIN task
     /\ task[id].pc = "idle"
     /\ crawlSessions' = createCrawlSession(crawlSessions, id,
                           [url |-> url, maxPages |-> maxPages, maxDepth |-> maxDepth])
     /\ currentSessionId' = id + 1
     /\ task' = [task EXCEPT ![id] = [IdleTask EXCEPT !.pc = "created",
                   !.startUrl = url, !.maxPages = maxPages, !.maxDepth = maxDepth]]
     /\ UNCHANGED <<crawledPages, pdfLinks, currentPageId, activeCrawls,
                    faultsLeft, stopsLeft, lastResponse, stopCalls, flagPages>>

\* POST /api/crawl/start, up to the await of createCrawlSession; a body the
\* schema rejects goes to the catch clause: status 400
StartCrawl(body) ==
  IF startCrawlSchema(body)
  THEN CreateSession(body.url, body.maxPages[1], body.maxDepth[1])
  ELSE /\ lastResponse' = [op |-> "start", code |-> 400, sessionId |-> 0]
       /\ UNCHANGED <<task, stopsLeft, faultsLeft, currentSessionId,
                      currentPageId, crawlSessions, crawledPages, pdfLinks,
                      activeCrawls, stopCalls, flagPages>>

\* POST /api/crawl/start after the await: the response, then startCrawling up
\* to its first await (routes.ts 22-25, 153-157)
StartResume(s) ==
  /\ task[s].pc = "created"
  /\ \E fault \in FaultChoices :
       Apply(StorageCall(World, s, fault, "updateCrawlSession",
               [World EXCEPT !.crawlSessions =
                  updateCrawlSession(@, s, [status |-> "running"])],
               "markedRunning"))
  /\ lastResponse' = [op |-> "start", code |-> 200, sessionId |-> s]
  /\ UNCHANGED <<currentSessionId, stopsLeft, stopCalls, flagPages>>

\* routes.ts 159-177: registry entry, frontier, sitemap request
AfterMarkRunning(s) ==
  /\ task[s].pc = "markedRunning"
  /\ IF task[s].exc
     THEN task' = [task EXCEPT ![s].pc = "crashed", ![s].exc = FALSE]
          /\ UNCHANGED activeCrawls
     ELSE IF s \notin DOMAIN crawlSessions
     THEN task' = [task EXCEPT ![s].pc = "done"] /\ UNCHANGED activeCrawls
     ELSE /\ activeCrawls' = Put(activeCrawls, s,
                                 [shouldStop |-> FALSE, currentUrl |-> task[s].startUrl])
          /\ task' = [task EXCEPT ![s].pc = "sitemap",
                        ![s].queue = <<[url |-> task[s].startUrl, depth |-> 0]>>,
                        ![s].queued = {task[s].startUrl}]
  /\ UNCHANGED <<crawlSessions, crawledPages, pdfLinks, currentSessionId,
                 currentPageId, faultsLeft, stopsLeft, lastResponse, stopCalls, flagPages>>

\* routes.ts 178-184: sitemapUrls.forEach
RECURSIVE SeedFromSitemap(_, _)
SeedFromSitemap(t, urls) ==
  IF urls = <<>> THEN t
  ELSE LET url == Head(urls)
       IN SeedFromSitemap(
            IF url \notin t.visited /\ url \notin t.queued /\ Len(t.queue) < t.maxPages
            THEN [t EXCEPT !.queue = Append(@, [url |-> url, depth |-> 0]),
                           !.queued = @ \cup {url}]
            ELSE t,
            Tail(urls))

\* SitemapDone where a sitemap that yields no URLs ends the task
SitemapDoneAbortsOnFailure(s) ==
  /\ task[s].pc = "sitemap"
  /\ \E sitemapUrls \in Sitemaps :
         \E fault \in FaultChoices :
       TaskStep(IF sitemapUrls = <<>>
                THEN [World EXCEPT !.task[s].pc = "crashed",
                                   !.faultsLeft = IF fault THEN @ - 1 ELSE @]
                ELSE LoopHead([World EXCEPT !.task[s] =
                     SeedFromSitemap([@ EXCEPT !.sitemapUrls = sitemapUrls], sitemapUrls)],
                  s, fault),
                fault)

\* getSitemapUrls returned; seed the queue and enter the loop
SitemapDone(s) ==
  /\ task[s].pc = "sitemap"
  /\ \E sitemapUrls \in Sitemaps :
         \E fault \in FaultChoices :
       TaskStep(LoopHead([World EXCEPT !.task[s] =
                     SeedFromSitemap([@ EXCEPT !.sitemapUrls = sitemapUrls], sitemapUrls)],
                  s, fault),
                fault)

\* axios.get returned a response (any status)
FetchResponse(s) ==
  /\ task[s].pc = "fetching"
  /\ \E fault \in FaultChoices :
       TaskStep(ResponseSegment(World, s, Site(task[s].current[1].url), fault),
                fault)

\* axios.get threw: transport failure
FetchFailure(s) ==
  /\ task[s].pc = "fetching"
  /\ \E fault \in FaultChoices :
       TaskStep(CatchSegment(World, s, fault),
                fault)

AfterPageCreated(s) ==
  /\ task[s].pc = "pageCreated"
  /\ \E fault \in FaultChoices :
       TaskStep(IF task[s].exc THEN CatchSegment(World, s, fault)
                ELSE CountSegment(World, s, fault),
                fault)

AfterPdfAdded(s) ==
  /\ task[s].pc = "pdfAdded"
  /\ \E fault \in FaultChoices :
       TaskStep(IF task[s].exc THEN CatchSegment(World, s, fault)
                ELSE PdfSegment(World, s, fault),
                fault)

\* routes.ts 295-299: broadcast, then the inter-request delay
AfterStatsUpdated(s) ==
  /\ task[s].pc = "statsUpdated"
  /\ \E fault \in FaultChoices :
       TaskStep(IF task[s].exc THEN CatchSegment(World, s, fault)
                ELSE [World EXCEPT !.task[s].pc = "delay"],
                fault)

\* the timer of the delay fired
DelayDone(s) ==
  /\ task[s].pc = "delay"
  /\ \E fault \in FaultChoices :
       TaskStep(LoopHead(World, s, fault),
                fault)

\* routes.ts 316-320: in the catch handler, after createCrawledPage; a
\* rejection inside the handler leaves startCrawling
AfterCatchPageCreated(s) ==
  /\ task[s].pc = "catchPageCreated"
  /\ \E fault \in FaultChoices :
       TaskStep(IF task[s].exc
                THEN [World EXCEPT !.task[s].pc = "crashed", !.task[s].exc = FALSE]
                ELSE StorageCall(World, s, fault, "updateCrawlSession",
              [World EXCEPT !.crawlSessions =
                 updateCrawlSession(@, s, Counters(task[s]))],
              "catchStatsUpdated"),
                fault)

AfterCatchStatsUpdated(s) ==
  /\ task[s].pc = "catchStatsUpdated"
  /\ \E fault \in FaultChoices :
       TaskStep(IF task[s].exc
                THEN [World EXCEPT !.task[s].pc = "crashed", !.task[s].exc = FALSE]
                ELSE LoopHead(World, s, fault),
                fault)

\* AfterFinalUpdate with the activeCrawls.delete of the finally block left out
AfterFinalUpdateNoDelete(s) ==
  /\ task[s].pc = "finalUpdated"
  /\ Apply([World EXCEPT !.task[s].pc = "done", !.task[s].exc = FALSE])
  /\ flagPages' = [flagPages EXCEPT ![s] = {}]
  /\ UNCHANGED <<currentSessionId, stopsLeft, lastResponse, stopCalls>>

\* routes.ts 335-348: catch (log only), finally activeCrawls.delete; what was
\* noted about the entry's flag goes with the entry
AfterFinalUpdate(s) ==
  /\ task[s].pc = "finalUpdated"
  /\ Apply([World EXCEPT !.activeCrawls = Remove(@, s),
                  !.task[s].pc = "done", !.task[s].exc = FALSE])
  /\ flagPages' = [flagPages EXCEPT ![s] = {}]
  /\ UNCHANGED <<currentSessionId, stopsLeft, lastResponse, stopCalls>>

\* StopCrawl setting the flag of every registry entry
StopCrawlAll(sessionId) ==
  /\ stopsLeft > 0
  /\ stopsLeft' = stopsLeft - 1
  /\ activeCrawls' = IF sessionId \in DOMAIN activeCrawls
                     THEN [x \in DOMAIN activeCrawls |->
                             [activeCrawls[x] EXCEPT !.shouldStop = TRUE]]
                     ELSE activeCrawls
  /\ crawlSessions' = updateCrawlSession(crawlSessions, sessionId,
                        [status |-> "stopped", completedAt |-> Some("date")])
  /\ IF sessionId \in DOMAIN crawlSessions
     THEN /\ lastResponse' = [op |-> "stop", code |-> 200, sessionId |-> sessionId]
          /\ stopCalls' = [stopCalls EXCEPT ![sessionId] =
                             @ \cup {crawlSessions[sessionId].status}]
     ELSE /\ lastResponse' = [op |-> "stop", code |-> 404, sessionId |-> sessionId]
          /\ UNCHANGED stopCalls
  /\ flagPages' = IF sessionId \in DOMAIN activeCrawls
                  THEN [flagPages EXCEPT ![sessionId] =
                          IF @ = {}
                          THEN {Len(getCrawledPagesBySession(crawledPages, sessionId))}
                          ELSE @]
                  ELSE flagPages
  /\ UNCHANGED <<task, crawledPages, pdfLinks, currentSessionId, currentPageId,
                 faultsLeft>>

\* StopCrawl putting a registry entry in place when the session has none
StopCrawlRegisters(sessionId) ==
  /\ stopsLeft > 0
  /\ stopsLeft' = stopsLeft - 1
  /\ activeCrawls' = IF sessionId \in DOMAIN activeCrawls
                     THEN [activeCrawls EXCEPT ![sessionId].shouldStop = TRUE]
                     ELSE Put(activeCrawls, sessionId,
                              [shouldStop |-> TRUE, currentUrl |-> SeedUrl])
  /\ crawlSessions' = updateCrawlSession(crawlSessions, sessionId,
                        [status |-> "stopped", completedAt |-> Some("date")])
  /\ IF sessionId \in DOMAIN crawlSessions
     THEN /\ lastResponse' = [op |-> "stop", code |-> 200, sessionId |-> sessionId]
          /\ stopCalls' = [stopCalls EXCEPT ![sessionId] =
                             @ \cup {crawlSessions[sessionId].status}]
     ELSE /\ lastResponse' = [op |-> "stop", code |-> 404, sessionId |-> sessionId]
          /\ UNCHANGED stopCalls
  /\ flagPages' = IF sessionId \in DOMAIN activeCrawls
                  THEN [flagPages EXCEPT ![sessionId] =
                          IF @ = {}
                          THEN {Len(getCrawledPagesBySession(crawledPages, sessionId))}
                          ELSE @]
                  ELSE flagPages
  /\ UNCHANGED <<task, crawledPages, pdfLinks, currentSessionId, currentPageId,
                 faultsLeft>>

\* POST /api/crawl/:sessionId/stop
StopCrawl(sessionId) ==
  /\ stopsLeft > 0
  /\ stopsLeft' = stopsLeft - 1
  /\ activeCrawls' = IF sessionId \in DOMAIN activeCrawls
                     THEN [activeCrawls EXCEPT ![sessionId].shouldStop = TRUE]
                     ELSE activeCrawls
  /\ crawlSessions' = updateCrawlSession(crawlSessions, sessionId,
                        [status |-> "stopped", completedAt |-> Some("date")])
  /\ IF sessionId \in DOMAIN crawlSessions
     THEN /\ lastResponse' = [op |-> "stop", code |-> 200, sessionId |-> sessionId]
          /\ stopCalls' = [stopCalls EXCEPT ![sessionId] =
                             @ \cup {crawlSessions[sessionId].status}]
     ELSE /\ lastResponse' = [op |-> "stop", code |-> 404, sessionId |-> sessionId]
          /\ UNCHANGED stopCalls
  /\ flagPages' = IF sessionId \in DOMAIN activeCrawls
                  THEN [flagPages EXCEPT ![sessionId] =
                          IF @ = {}
                          THEN {Len(getCrawledPagesBySession(crawledPages, sessionId))}
                          ELSE @]
                  ELSE flagPages
  /\ UNCHANGED <<task, crawledPages, pdfLinks, currentSessionId, currentPageId,
                 faultsLeft>>

\* GET /api/crawl/:sessionId: the response body
GetProgressResponse(sessionId) ==
  IF sessionId \notin DOMAIN crawlSessions THEN [code |-> 404]
  ELSE LET session == crawlSessions[sessionId]
           pages == getCrawledPagesBySession(crawledPages, sessionId)
           uniquePages == Cardinality(getUniqueContentHashes(crawledPages, sessionId))
       IN [code |-> 200,
           session |->
             [session EXCEPT !.currentUrl =
                IF sessionId \in DOMAIN activeCrawls
                THEN Some(activeCrawls[sessionId].currentUrl)
                ELSE @],
           stats |->
             [successful |-> Len(SelectSeq(pages, LAMBDA p :
                   p.statusCode # Null /\ p.statusCode[1] >= 200
                     /\ p.statusCode[1] < 300)),
              errors |-> Len(SelectSeq(pages, LAMBDA p :
                   p.statusCode # Null /\ p.statusCode[1] >= 400)),
              totalFound |-> Len(pages),
              uniquePages |-> uniquePages,
              duplicateUrls |-> Len(pages) - uniquePages,
              pdfLinks |-> getPdfLinkCount(pdfLinks, sessionId)]]

\* GET /api/crawl/:sessionId
GetProgress(sessionId) ==
  /\ lastResponse' = [op |-> "progress",
                      code |-> GetProgressResponse(sessionId).code,
                      sessionId |-> sessionId]
  /\ UNCHANGED <<crawlSessions, crawledPages, pdfLinks, currentSessionId,
                 currentPageId, activeCrawls, task, faultsLeft, stopsLeft,
                 stopCalls, flagPages>>

\* `x || ''` of a CSV cell
OrEmpty(v) == IF v = Null THEN "" ELSE v[1]

\* ExportCsvResponse answering not-found when either collection is empty
ExportCsvResponseEitherEmpty(sessionId) ==
  LET pages == getCrawledPagesBySession(crawledPages, sessionId)
      pdfs == getPdfLinks(pdfLinks, sessionId)
  IN IF Len(pages) = 0 \/ Cardinality(pdfs) = 0
     THEN [code |-> 404]
     ELSE [code |-> 200,
           pageRows |-> [i \in 1..Len(pages) |->
                           <<pages[i].url, OrEmpty(pages[i].statusCode),
                             OrEmpty(pages[i].contentType), pages[i].depth,
                             OrEmpty(pages[i].contentHash)>>],
           pdfRows |-> pdfs]

\* GET /api/crawl/:sessionId/export: status and the rows of the CSV, the
\* page rows in page order, then the rows of the PDF section
ExportCsvResponse(sessionId) ==
  LET pages == getCrawledPagesBySession(crawledPages, sessionId)
      pdfs == getPdfLinks(pdfLinks, sessionId)
  IN IF Len(pages) = 0 /\ Cardinality(pdfs) = 0
     THEN [code |-> 404]
     ELSE [code |-> 200,
           pageRows |-> [i \in 1..Len(pages) |->
                           <<pages[i].url, OrEmpty(pages[i].statusCode),
                             OrEmpty(pages[i].contentType), pages[i].depth,
                             OrEmpty(pages[i].contentHash)>>],
           pdfRows |-> pdfs]

\* GET /api/crawl/:sessionId/export
ExportCsv(sessionId) ==
  /\ lastResponse' = [op |-> "export",
                      code |-> ExportCsvResponse(sessionId).code,
                      sessionId |-> sessionId]
  /\ UNCHANGED <<crawlSessions, crawledPages, pdfLinks, currentSessionId,
                 currentPageId, activeCrawls, task, faultsLeft, stopsLeft,
                 stopCalls, flagPages>>

CrawlTask(s) ==
  \/ StartResume(s)
  \/ AfterMarkRunning(s)
  \/ SitemapDone(s)
  \/ FetchResponse(s)
  \/ FetchFailure(s)
  \/ AfterPageCreated(s)
  \/ AfterPdfAdded(s)
  \/ AfterStatsUpdated(s)
  \/ DelayDone(s)
  \/ AfterCatchPageCreated(s)
  \/ AfterCatchStatsUpdated(s)
  \/ AfterFinalUpdate(s)

Next ==
  \/ \E maxPages \in MinPages..MaxPagesBound, maxDepth \in MinDepth..MaxDepthBound :
       StartCrawl(StartBody(SeedUrl, Some(maxPages), Some(maxDepth)))
  \/ \E i \in DOMAIN OtherBodies : StartCrawl(OtherBodies[i])
  \/ \E s \in SessionIds : CrawlTask(s)
  \/ \E sessionId \in SessionIds : StopCrawl(sessionId)
  \/ \E sessionId \in SessionIds : GetProgress(sessionId)
  \/ \E sessionId \in SessionIds : ExportCsv(sessionId)

Spec == Init /\ [][Next]_vars

\* startCrawling as its signature admits it: run on sessions of any maxDepth
\* from 0, which the schema of the start request does not let through
NextLoop ==
  \/ \E maxPages \in MinPages..MaxPagesBound, maxDepth \in 0..MaxDepthBound :
       CreateSession(SeedUrl, maxPages, maxDepth)
  \/ \E s \in SessionIds : CrawlTask(s)
  \/ \E sessionId \in SessionIds : StopCrawl(sessionId)

SpecLoop == Init /\ [][NextLoop]_vars

\* two sessions started one after the other, their crawl tasks interleaved
\* at every await, stop requests to either
TwoSessionIds == {1, 2}

InitTwo == InitOf(TwoSessionIds, MaxFaultsTwo)

NextTwo ==
  \/ CreateSession(SeedUrl, MinPages, MinDepth)
  \/ \E s \in TwoSessionIds : CrawlTask(s)
  \/ \E sessionId \in TwoSessionIds : StopCrawl(sessionId)

SpecTwo == InitTwo /\ [][NextTwo]_vars

\* one crawl with room for a third level: six pages, two levels of links
NextDeep ==
  \/ CreateSession(SeedUrl, 6, 2)
  \/ \E s \in SessionIds : CrawlTask(s)

SpecDeep == Init /\ [][NextDeep]_vars

\* the crawl engine with a storage collaborator that never rejects and an
\* event loop that resumes a task whose awaited fetch, timer or storage call
\* has settled: every pending continuation of startCrawling eventually runs
InitLive == InitOf(SessionIds, 0)

\* weak fairness of every continuation of the task: what it awaits settles
\* (a fetch one way or the other) and the event loop then resumes it. For the
\* continuation after createCrawledPage the condition is written out, with
\* the guard of the action in the place of ENABLED <<AfterPageCreated(s)>>_vars.
TaskFairness(s) ==
  /\ WF_vars(StartResume(s))
  /\ WF_vars(AfterMarkRunning(s))
  /\ WF_vars(SitemapDone(s))
  /\ WF_vars(FetchResponse(s) \/ FetchFailure(s))
  /\ []<>(task[s].pc # "pageCreated") \/ []<><<AfterPageCreated(s)>>_vars
  /\ WF_vars(AfterPdfAdded(s))
  /\ WF_vars(AfterStatsUpdated(s))
  /\ WF_vars(DelayDone(s))
  /\ WF_vars(AfterCatchPageCreated(s))
  /\ WF_vars(AfterCatchStatsUpdated(s))
  /\ WF_vars(AfterFinalUpdate(s))

SpecLive == InitLive /\ [][NextLoop]_vars /\ \A s \in SessionIds : TaskFairness(s)

\* crawls seeded at a page whose body is no document, no storage rejection
NextUnparsed ==
  \/ \E maxPages \in MinPages..MaxPagesBound, maxDepth \in 0..MaxDepthBound :
       CreateSession(UrlE, maxPages, maxDepth)
  \/ \E s \in SessionIds : CrawlTask(s)

SpecUnparsed == InitLive /\ [][NextUnparsed]_vars

\* ---------------------------------------------------------- properties
Terminal == {"completed", "stopped", "error"}
Ended(s) == task[s].pc \in {"done", "crashed"}
PagesOf(s) == getCrawledPagesBySession(crawledPages, s)
Is2xx(code) == code # Null /\ code[1] >= 200 /\ code[1] < 300

\* C1: no two CrawledPage records of one session have the same url.
C1_UniqueUrlPerSession ==
  \A i, j \in 1..Len(crawledPages) :
    (crawledPages[i].sessionId = crawledPages[j].sessionId
       /\ crawledPages[i].url = crawledPages[j].url) => i = j

\* C2: totalPages = successfulPages + errorPages, for the crawl task's
\* counters at every await and for the counters persisted on the session.
C2_CounterInvariant ==
  \A s \in DOMAIN crawlSessions :
    /\ task[s].totalPages = task[s].successfulPages + task[s].errorPages
    /\ crawlSessions[s].totalPages =
         crawlSessions[s].successfulPages + crawlSessions[s].errorPages

C2_Witness ==
  \E s \in DOMAIN crawlSessions :
    /\ Ended(s)
    /\ crawlSessions[s].totalPages >= 2
    /\ crawlSessions[s].successfulPages >= 1
    /\ crawlSessions[s].errorPages >= 1

\* C3: neither the task's totalPages, nor the persisted totalPages, nor the
\* number of CrawledPage records of a session exceeds the session's maxPages.
C3_PageBudget ==
  \A s \in DOMAIN crawlSessions :
    /\ task[s].totalPages <= crawlSessions[s].maxPages
    /\ crawlSessions[s].totalPages <= crawlSessions[s].maxPages
    /\ Len(PagesOf(s)) <= crawlSessions[s].maxPages

\* the URLs that sitemap seeding put into the queue of session s
SeededUrls(s) ==
  LET t0 == [task[s] EXCEPT
               !.queue = <<[url |-> task[s].startUrl, depth |-> 0]>>,
               !.queued = {task[s].startUrl}, !.visited = {}]
      q == SeedFromSitemap(t0, task[s].sitemapUrls).queue
  IN {q[i].url : i \in 2..Len(q)}

\* C4: no page is deeper than maxDepth; the seed and the sitemap-seeded URLs
\* are recorded with depth 0; every other page has the depth of an earlier
\* 2xx page that links to it, plus one.
C4_DepthBound ==
  \A s \in DOMAIN crawlSessions :
    LET ps == PagesOf(s)
        seed == crawlSessions[s].url
        seeded == SeededUrls(s) \cup {seed}
    IN \A i \in 1..Len(ps) :
         /\ ps[i].depth <= crawlSessions[s].maxDepth
         /\ ps[i].url \in seeded => ps[i].depth = 0
         /\ ps[i].url \notin seeded =>
              \E j \in 1..(i - 1) :
                /\ ps[j].depth + 1 = ps[i].depth
                /\ Is2xx(ps[j].statusCode)
                /\ InSeq(ps[i].url,
                         extractLinksAndPdfs(Site(ps[j].url).hrefs, seed).links)

C4_Witness ==
  \E s \in DOMAIN crawlSessions :
    /\ crawlSessions[s].maxDepth = 2
    /\ \E i \in 1..Len(PagesOf(s)) : PagesOf(s)[i].depth = 2
    /\ \E i \in 1..Len(PagesOf(s)) :
         PagesOf(s)[i].depth = 0 /\ PagesOf(s)[i].url = crawlSessions[s].url

\* C5: the hostname of every page url equals the seed's hostname, both
\* without a leading www.
C5_ScopeFilter ==
  \A s \in DOMAIN crawlSessions :
    \A i \in 1..Len(PagesOf(s)) :
      StripWww(PagesOf(s)[i].url.host) = StripWww(crawlSessions[s].url.host)

\* C6: a session's status changes only pending -> running and
\* running -> completed, stopped or error.
C6_StatusForwardOnly ==
  [][\A s \in DOMAIN crawlSessions :
       \/ crawlSessions'[s].status = crawlSessions[s].status
       \/ crawlSessions[s].status = "pending" /\ crawlSessions'[s].status = "running"
       \/ crawlSessions[s].status = "running" /\ crawlSessions'[s].status \in Terminal
    ]_vars

\* C7: when a stop request has reached a session whose status was running,
\* the crawl task, once it has left its loop and ended, leaves the session in
\* status stopped.
C7_StopStops ==
  \A s \in DOMAIN crawlSessions :
    ("running" \in stopCalls[s] /\ Ended(s)) => crawlSessions[s].status = "stopped"

\* C8: a stop request for an existing session succeeds, and on a session that
\* is already completed, stopped or error it leaves status, counters and page
\* records as they were.
C8_StopIdempotent ==
  [][\A id \in SessionIds :
       (StopCrawl(id) /\ id \in DOMAIN crawlSessions) =>
         /\ lastResponse'.code = 200
         /\ crawlSessions[id].status \in Terminal =>
              /\ crawlSessions'[id].status = crawlSessions[id].status
              /\ crawlSessions'[id].totalPages = crawlSessions[id].totalPages
              /\ crawlSessions'[id].successfulPages = crawlSessions[id].successfulPages
              /\ crawlSessions'[id].errorPages = crawlSessions[id].errorPages
              /\ crawledPages' = crawledPages
    ]_vars

\* C9: once the crawl task of a session has ended, on whatever path, the
\* registry has no entry for the session.
C9_RegistryCleanedUp ==
  \A s \in SessionIds : Ended(s) => s \notin DOMAIN activeCrawls

\* C10: a session whose crawl task had an updateCrawlSession call rejected
\* ends in status error with its error field set, and no ended crawl task
\* leaves its session in status running.
C10_UpdateFailureIsError ==
  \A s \in DOMAIN crawlSessions :
    Ended(s) =>
      /\ crawlSessions[s].status # "running"
      /\ "updateCrawlSession" \in task[s].rejected =>
           crawlSessions[s].status = "error" /\ crawlSessions[s].error # Null

\* C11: a transport failure stores exactly one CrawledPage for the URL, whose
\* statusCode reads back as 0 and whose contentHash is null; errorPages and
\* totalPages each grow by one and successfulPages stays.
C11_TransportFailureRecorded ==
  [][\A s \in SessionIds :
       (FetchFailure(s) /\ ~task'[s].exc) =>
         LET url == task[s].current[1].url
             mine == SelectSeq(getCrawledPagesBySession(crawledPages', s),
                               LAMBDA p : p.url = url)
         IN /\ Len(mine) = 1
            /\ mine[1].statusCode = Some(0)
            /\ mine[1].contentHash = Null
            /\ task'[s].errorPages = task[s].errorPages + 1
            /\ task'[s].totalPages = task[s].totalPages + 1
            /\ task'[s].successfulPages = task[s].successfulPages
    ]_vars

\* C12: a start request with a malformed url, with maxPages outside
\* [1,10000] or with maxDepth outside [1,20] is answered with an error and
\* leaves the session store, the page store, the registry and the crawl tasks
\* as they were.
C12_InvalidStartRejected ==
  [][(\E n \in DOMAIN OtherBodies :
        LET body == OtherBodies[n]
        IN /\ \/ body.url.host = <<>>
              \/ body.maxPages # Null
                   /\ (body.maxPages[1] < 1 \/ body.maxPages[1] > 10000)
              \/ body.maxDepth[1] < 1 \/ body.maxDepth[1] > 20
           /\ StartCrawl(body)) =>
       /\ lastResponse'.op = "start" /\ lastResponse'.code = 400
       /\ UNCHANGED <<crawlSessions, crawledPages, pdfLinks, activeCrawls,
                      task, currentSessionId, currentPageId>>
    ]_vars

C12_Witness ==
  /\ lastResponse.op = "start" /\ lastResponse.code = 400
  /\ crawlSessions = <<>> /\ currentSessionId = 1 /\ activeCrawls = <<>>

\* C13: a start request without maxPages, with a valid url and a valid
\* maxDepth, creates a session whose crawl task has a page budget of 1000.
C13_DefaultMaxPages ==
  [][\A n \in DOMAIN OtherBodies :
       LET body == OtherBodies[n]
       IN
       (/\ body.maxPages = Null
        /\ body.url.host # <<>>
        /\ body.maxDepth[1] >= 1 /\ body.maxDepth[1] <= 20
        /\ currentSessionId \in SessionIds
        /\ StartCrawl(body)) =>
         /\ currentSessionId \in DOMAIN crawlSessions'
         /\ task'[currentSessionId].maxPages = 1000
    ]_vars

\* C14: GetProgress, StopCrawl and ExportCsv for an id no session was created
\* under answer not-found and leave sessions, registry, pages, PDF links and
\* crawl tasks as they were.
C14_UnknownSessionNotFound ==
  [][\A id \in SessionIds :
       (/\ id \notin DOMAIN crawlSessions
        /\ (GetProgress(id) \/ StopCrawl(id) \/ ExportCsv(id))) =>
         /\ lastResponse'.code = 404
         /\ UNCHANGED <<crawlSessions, activeCrawls, crawledPages, pdfLinks,
                        task, currentSessionId, currentPageId>>
    ]_vars

C14_Witness ==
  /\ crawlSessions = <<>>
  /\ stopsLeft < MaxStops
  /\ lastResponse.op \in {"progress", "export"}
  /\ lastResponse.code = 404

\* C15: in a GetProgress response uniquePages is the number of distinct
\* non-null content hashes of the session's pages, duplicateUrls is
\* totalFound - uniquePages and is not negative, and totalFound counts every
\* page, those with a null hash included.
C15_UniquePlusDuplicates ==
  \A id \in DOMAIN crawlSessions :
    LET stats == GetProgressResponse(id).stats
        ps == PagesOf(id)
        hashes == {ps[i].contentHash : i \in 1..Len(ps)} \ {Null}
    IN /\ stats.totalFound = Len(ps)
       /\ stats.uniquePages = Cardinality(hashes)
       /\ stats.duplicateUrls = stats.totalFound - stats.uniquePages
       /\ stats.uniquePages + stats.duplicateUrls = stats.totalFound
       /\ stats.duplicateUrls >= 0

C15_Witness ==
  /\ lastResponse.op = "progress" /\ lastResponse.code = 200
  /\ \E id \in DOMAIN crawlSessions :
       LET ps == PagesOf(id)
       IN /\ \E i, j \in 1..Len(ps) :
               i # j /\ ps[i].contentHash # Null
                 /\ ps[i].contentHash = ps[j].contentHash
          /\ \E i \in 1..Len(ps) : ps[i].contentHash = Null
          /\ GetProgressResponse(id).stats.duplicateUrls = 2

C17_ExportRows ==
  \A id \in SessionIds :
    LET r == ExportCsvResponse(id)
        ps == PagesOf(id)
        pdfs == IF id \in DOMAIN pdfLinks THEN pdfLinks[id] ELSE {}
    IN /\ r.code = 404 <=> (Len(ps) = 0 /\ pdfs = {})
       /\ r.code # 404 =>
            /\ r.code = 200
            /\ Len(r.pageRows) = Len(ps)
            /\ \A i \in 1..Len(ps) : r.pageRows[i][1] = ps[i].url
            /\ r.pdfRows = pdfs

C17_Witness ==
  /\ lastResponse.op = "export" /\ lastResponse.code = 200
  /\ \E id \in DOMAIN crawlSessions :
       /\ crawlSessions[id].status = "running"
       /\ task[id].pc = "delay"
       /\ Len(PagesOf(id)) = 2
       /\ id \in DOMAIN pdfLinks /\ pdfLinks[id] = {UrlPdf}

\* C18: a response that is not 2xx, or is 2xx but not HTML or at depth
\* maxDepth, is recorded as one CrawledPage with its status, is counted once
\* (as an error page if not 2xx, as a successful page otherwise), and the
\* iteration leaves the queue, the queued set and the PDF-link set alone.
C18_NoExtractionFrame ==
  [][\A s \in SessionIds :
       (task[s].current # Null /\ task[s].pc \in {"fetching", "pageCreated", "statsUpdated"}) =>
         LET cur == task[s].current[1]
             resp == Site(cur.url)
             ok == resp.status >= 200 /\ resp.status < 300
             noExtract == ~(ok /\ resp.ctype = "text/html" /\ cur.depth < task[s].maxDepth)
             frame == /\ task'[s].queue = task[s].queue
                      /\ task'[s].queued = task[s].queued
                      /\ pdfLinks' = pdfLinks
             counted == /\ task'[s].totalPages = task[s].totalPages
                        /\ task'[s].successfulPages = task[s].successfulPages
                        /\ task'[s].errorPages = task[s].errorPages
         IN noExtract =>
              /\ (FetchResponse(s) /\ ~task'[s].exc) =>
                   /\ Len(crawledPages') = Len(crawledPages) + 1
                   /\ crawledPages'[Len(crawledPages')].url = cur.url
                   /\ crawledPages'[Len(crawledPages')].statusCode = Some(resp.status)
                   /\ counted /\ frame
              /\ (AfterPageCreated(s) /\ ~task[s].exc) =>
                   /\ task'[s].totalPages = task[s].totalPages + 1
                   /\ task'[s].successfulPages =
                        task[s].successfulPages + (IF ok THEN 1 ELSE 0)
                   /\ task'[s].errorPages = task[s].errorPages + (IF ok THEN 0 ELSE 1)
                   /\ crawledPages' = crawledPages
                   /\ frame
              /\ AfterStatsUpdated(s) =>
                   /\ crawledPages' = crawledPages
                   /\ counted /\ frame
    ]_vars

\* C19: no URL of a session's PDF-link set is the url of a CrawledPage of the
\* session, and no URL that link extraction put into the frontier has a path
\* ending in .pdf.
C19_PdfNeverFetched ==
  \A s \in DOMAIN crawlSessions :
    /\ \A i \in 1..Len(PagesOf(s)) : PagesOf(s)[i].url \notin getPdfLinks(pdfLinks, s)
    /\ \A u \in task[s].queued \ ({task[s].startUrl} \cup SeededUrls(s)) :
         ExtOf(u.path) # ".pdf"

\* C20: a session issues at most one GET per URL: no URL occurs twice among
\* the requests issued, no URL already dispatched is in the queue, and no
\* URL is in the queue twice.
C20_FetchedOnce ==
  \A s \in DOMAIN crawlSessions :
    LET t == task[s]
    IN /\ \A i, j \in 1..Len(t.fetched) : t.fetched[i] = t.fetched[j] => i = j
       /\ \A i \in 1..Len(t.queue) : t.queue[i].url \notin t.visited
       /\ \A i, j \in 1..Len(t.queue) : t.queue[i].url = t.queue[j].url => i = j
       /\ {t.fetched[i] : i \in 1..Len(t.fetched)} = t.visited

C20_Witness ==
  \E s \in DOMAIN crawlSessions :
    LET ps == PagesOf(s)
    IN /\ Ended(s)
       /\ Len(task[s].fetched) = 3
       /\ \E i, j \in 1..Len(ps) :
            /\ i < j
            /\ ps[i].url = task[s].startUrl /\ ps[i].statusCode = Null
            /\ Is2xx(ps[j].statusCode) /\ ps[j].depth < task[s].maxDepth
            /\ ps[j].contentType = Some("text/html")
            /\ InSeq(ps[i].url,
                     extractLinksAndPdfs(Site(ps[j].url).hrefs, task[s].startUrl).links)

\* C21: when a stop request succeeded on a session before the crawl task
\* wrote a final status (the session was pending or running), the task ends
\* with the session in status stopped, never completed.
C21_StopBeforeFinalWins ==
  \A s \in DOMAIN crawlSessions :
    (stopCalls[s] \cap {"pending", "running"} # {} /\ task[s].pc = "done") =>
      /\ crawlSessions[s].status # "completed"
      /\ crawlSessions[s].status = "stopped"

\* C22: once the cancellation flag of a session is set, no further URL is
\* dequeued and fetched, and at most one further CrawledPage is recorded for
\* the session (the page of the fetch that was in flight).
C22_AfterFlagOnePage ==
  [][\A s \in DOMAIN activeCrawls :
       activeCrawls[s].shouldStop =>
         /\ task'[s].fetched = task[s].fetched
         /\ task'[s].visited = task[s].visited
         /\ \A n \in flagPages[s] :
              Len(getCrawledPagesBySession(crawledPages', s)) <= n + 1
    ]_vars

\* C23: the registry holds an entry for a session only if the session's
\* persisted status is running.
C23_EntryOnlyWhileRunning ==
  \A s \in DOMAIN activeCrawls :
    s \in DOMAIN crawlSessions /\ crawlSessions[s].status = "running"

\* C23 (amended): an entry exists only from the task's registration until the
\* task's cleanup; the status is running, or stopped after a stop request, or
\* completed between the final update and the cleanup; never pending or error.
C23_EntryLifetime ==
  \A s \in DOMAIN activeCrawls :
    /\ s \in DOMAIN crawlSessions
    /\ task[s].pc \notin {"idle", "created", "markedRunning", "done"}
    /\ crawlSessions[s].status \in {"running", "stopped", "completed"}
    /\ crawlSessions[s].status = "completed" => task[s].pc = "finalUpdated"
    /\ crawlSessions[s].status = "stopped" => stopCalls[s] # {}

C23_Witness ==
  \E s \in DOMAIN activeCrawls :
    /\ crawlSessions[s].status = "stopped"
    /\ activeCrawls[s].shouldStop
    /\ task[s].pc = "fetching"

\* what belongs to one session: its task's locals, its registry entry, its
\* session record, its pages and its PDF links
SessionView(s) ==
  [task |-> task[s],
   entry |-> IF s \in DOMAIN activeCrawls THEN Some(activeCrawls[s]) ELSE Null,
   session |-> IF s \in DOMAIN crawlSessions THEN Some(crawlSessions[s]) ELSE Null,
   pages |-> PagesOf(s),
   pdfLinks |-> getPdfLinks(pdfLinks, s)]

\* C24: two sessions are independent. A step of one session's crawl task or a
\* stop request to it leaves everything of the other session unchanged, that
\* is, no step changes what belongs to more than one session (locals
\* with visited, queued, queue and counters; cancellation flag; status; pages);
\* a page is recorded under the id of the session whose task fetched it; each
\* session's visited set holds exactly the URLs that session fetched.
C24_SessionsIndependent ==
  [][/\ Cardinality({a \in DOMAIN task : SessionView(a)' # SessionView(a)}) <= 1
     /\ \A a \in DOMAIN task :
          /\ Len(crawledPages') > Len(crawledPages) =>
               LET page == crawledPages'[Len(crawledPages')]
               IN page.sessionId = a =>
                    /\ task[a].current # Null
                    /\ page.url = task[a].current[1].url
          /\ task'[a].visited = {task'[a].fetched[i] : i \in 1..Len(task'[a].fetched)}
    ]_vars

C24_Witness ==
  /\ DOMAIN activeCrawls = {1, 2}
  /\ activeCrawls[1].shouldStop /\ ~activeCrawls[2].shouldStop
  /\ crawlSessions[1].status = "stopped" /\ crawlSessions[2].status = "running"
  /\ \E i \in 1..Len(crawledPages), j \in 1..Len(crawledPages) :
       /\ crawledPages[i].sessionId = 1 /\ crawledPages[j].sessionId = 2
       /\ crawledPages[i].url = crawledPages[j].url

\* C25: when the sitemap request yields no URLs (missing, timeout, malformed)
\* and no stop request came in meanwhile, the task goes on to fetch the seed at
\* depth 0 with the session record untouched; the first URL a task fetches is
\* always the seed.
C25_SitemapFailureHarmless ==
  [][\A s \in DOMAIN task :
       /\ (/\ task[s].pc = "sitemap"
           /\ task'[s].pc # "sitemap"
           /\ task'[s].sitemapUrls = <<>>
           /\ ~activeCrawls[s].shouldStop) =>
             /\ task'[s].pc = "fetching"
             /\ task'[s].current = Some([url |-> task[s].startUrl, depth |-> 0])
             /\ task'[s].fetched = <<task[s].startUrl>>
             /\ crawlSessions'[s] = crawlSessions[s]
       /\ task'[s].fetched # <<>> => task'[s].fetched[1] = task'[s].startUrl
    ]_vars

C25_Witness ==
  \E s \in DOMAIN activeCrawls :
    /\ task[s].pc = "fetching"
    /\ task[s].sitemapUrls = <<>>
    /\ task[s].fetched = <<SeedUrl>>
    /\ task[s].current = Some([url |-> SeedUrl, depth |-> 0])
    /\ crawlSessions[s].status = "running"
    /\ crawledPages = <<>>

\* C26: frontier invariant. The queue holds no URL twice, every visited URL
\* and every queue entry's URL is in the queued set, and queue length +
\* totalPages <= maxPages.
C26_FrontierInvariant ==
  \A s \in DOMAIN task :
    LET t == task[s]
    IN /\ \A i \in 1..Len(t.queue), j \in 1..Len(t.queue) :
            t.queue[i].url = t.queue[j].url => i = j
       /\ t.visited \subseteq t.queued
       /\ \A i \in 1..Len(t.queue) : t.queue[i].url \in t.queued
       /\ Len(t.queue) + t.totalPages <= t.maxPages

IsPrefix(p, sq) == Len(p) <= Len(sq) /\ SubSeq(sq, 1, Len(p)) = p

\* the elements of sub occur in sq in the same order
RECURSIVE IsSubsequence(_, _)
IsSubsequence(sub, sq) ==
  IF sub = <<>> THEN TRUE
  ELSE IF sq = <<>> THEN FALSE
  ELSE IF Head(sub) = Head(sq) THEN IsSubsequence(Tail(sub), Tail(sq))
  ELSE IsSubsequence(sub, Tail(sq))

PositionIn(sq, x) == CHOOSE i \in 1..Len(sq) : sq[i] = x

AcceptedLinks(page, startUrl) ==
  IF Is2xx(page.statusCode) /\ page.contentType = Some("text/html")
  THEN LET links == extractLinksAndPdfs(Site(page.url).hrefs, startUrl).links
       IN {links[i] : i \in 1..Len(links)}
  ELSE {}

\* C28: the depth of a record is its BFS distance. A record of depth d > 0 has
\* an earlier record of its session with depth d - 1, a 2xx status and HTML
\* content that links to it, and no record of depth below d - 1 links to it.
C28_DepthIsBfsDistance ==
  \A s \in DOMAIN task :
    LET pages == PagesOf(s)
    IN \A j \in 1..Len(pages) :
         pages[j].depth > 0 =>
           /\ \E i \in 1..(j - 1) :
                /\ pages[i].depth = pages[j].depth - 1
                /\ pages[j].url \in AcceptedLinks(pages[i], task[s].startUrl)
           /\ \A i \in 1..Len(pages) :
                pages[i].depth < pages[j].depth - 1 =>
                  pages[j].url \notin AcceptedLinks(pages[i], task[s].startUrl)

\* the accepted page links of the page the site serves at u
SiteLinks(u, startUrl) ==
  LET resp == Site(u)
  IN IF resp.status >= 200 /\ resp.status < 300 /\ resp.ctype = "text/html"
     THEN LET links == extractLinksAndPdfs(resp.hrefs, startUrl).links
          IN {links[i] : i \in 1..Len(links)}
     ELSE {}

\* the URLs within `depthLeft` links of the URLs of `level`, together with `seen`
RECURSIVE ReachableWithin(_, _, _, _)
ReachableWithin(level, seen, depthLeft, startUrl) ==
  IF depthLeft = 0 \/ level = {} THEN seen \cup level
  ELSE ReachableWithin(
         UNION {SiteLinks(u, startUrl) : u \in level} \ (seen \cup level),
         seen \cup level, depthLeft - 1, startUrl)

\* the seed set (seed plus sitemap entries) and what is reachable from it
ReachableUrls(t) ==
  ReachableWithin({t.startUrl} \cup {t.sitemapUrls[i] : i \in 1..Len(t.sitemapUrls)},
                  {}, t.maxDepth, t.startUrl)

MinOf(a, b) == IF a <= b THEN a ELSE b

\* C29: a session that ends completed, every fetch of which was answered and
\* recorded, has fetched exactly min(maxPages, N) URLs, N the number of URLs
\* reachable from the seed set within maxDepth links; when N <= maxPages every
\* such URL has a record and no other URL has one.
C29_CompletedFetchedAll ==
  \A s \in DOMAIN task :
    LET t == task[s]
        pages == PagesOf(s)
        N == ReachableUrls(t)
    IN (/\ t.pc = "done"
        /\ s \in DOMAIN crawlSessions
        /\ crawlSessions[s].status = "completed"
        /\ \A k \in 1..Len(t.fetched) :
             Site(t.fetched[k]).status \in 200..299 =>
               \E i \in 1..Len(pages) :
                 pages[i].url = t.fetched[k] /\ Is2xx(pages[i].statusCode)) =>
         /\ Len(t.fetched) = MinOf(t.maxPages, Cardinality(N))
         /\ Cardinality(N) <= t.maxPages =>
              /\ \A u \in N : \E i \in 1..Len(pages) : pages[i].url = u
              /\ \A i \in 1..Len(pages) : pages[i].url \in N

\* what the hash is taken of: the body text of an HTML page, else the payload
NormalizedContent(resp) == IF resp.ctype = "text/html" THEN resp.text ELSE resp.body

\* C30: a record with a content hash has a 2xx status (records of non-2xx
\* responses and of failed fetches have none), and two 2xx records of a session
\* whose pages have the same normalized content have the same hash.
C30_HashOnly2xx ==
  \A i \in 1..Len(crawledPages) :
    LET page == crawledPages[i]
    IN /\ page.contentHash # Null => Is2xx(page.statusCode)
       /\ ~Is2xx(page.statusCode) => page.contentHash = Null
       /\ Is2xx(page.statusCode) =>
            \A j \in 1..(i - 1) :
              LET other == crawledPages[j]
              IN (/\ other.sessionId = page.sessionId
                  /\ Is2xx(other.statusCode)
                  /\ NormalizedContent(Site(page.url)) = NormalizedContent(Site(other.url))) =>
                   page.contentHash = other.contentHash

C30_Witness ==
  \E i \in 1..Len(crawledPages), j \in 1..Len(crawledPages), k \in 1..Len(crawledPages) :
    /\ crawledPages[i].url # crawledPages[j].url
    /\ Is2xx(crawledPages[i].statusCode) /\ Is2xx(crawledPages[j].statusCode)
    /\ crawledPages[i].contentHash # Null
    /\ crawledPages[i].contentHash = crawledPages[j].contentHash
    /\ crawledPages[k].statusCode = Null /\ crawledPages[k].contentHash = Null

\* the URLs the hrefs of a page's document denote when each is resolved against
\* the URL of that page, fragment removed
ResolvedOnPage(pageUrl) ==
  LET hrefs == Site(pageUrl).hrefs
  IN {WithoutHash(Resolve(hrefs[i], pageUrl)) :
        i \in {j \in 1..Len(hrefs) : hrefs[j].kind # "scheme"}}

\* C31: every URL the task queued from a document (any queued URL that is
\* neither the seed nor a sitemap entry) is an href of a recorded page of the
\* session resolved against the URL of that page.
C31_ResolvedAgainstPage ==
  \A s \in DOMAIN task :
    \A u \in task[s].queued \ SeededUrls(s) :
      u # task[s].startUrl =>
        \E i \in 1..Len(crawledPages) :
          /\ crawledPages[i].sessionId = s
          /\ u \in ResolvedOnPage(crawledPages[i].url)

\* C32: a fetch that is not the first of its session is dispatched by the step
\* that ends the inter-request delay.
C32_DelayBetweenFetches ==
  [][\A s \in DOMAIN task :
       (/\ Len(task'[s].fetched) > Len(task[s].fetched)
        /\ task[s].fetched # <<>>) => task[s].pc = "delay"
    ]_vars

\* C33: once the crawl task of a session has dispatched a fetch, the session
\* of the GetProgress response carries as currentUrl the URL dispatched last,
\* while the task runs and after it has terminated.
C33_CurrentUrlLastDispatched ==
  \A s \in DOMAIN crawlSessions :
    task[s].fetched # <<>> =>
      GetProgressResponse(s).session.currentUrl =
        Some(task[s].fetched[Len(task[s].fetched)])

\* C34: no step modifies or removes a CrawledPage record, removes a session,
\* or changes the url, maxPages or maxDepth of a session.
C34_AppendOnly ==
  [][/\ crawledPages' # crawledPages =>
          /\ Len(crawledPages') >= Len(crawledPages)
          /\ \A i \in 1..Len(crawledPages) : crawledPages'[i] = crawledPages[i]
     /\ crawlSessions' # crawlSessions =>
          \A s \in DOMAIN crawlSessions :
            /\ s \in DOMAIN crawlSessions'
            /\ crawlSessions'[s].url = crawlSessions[s].url
            /\ crawlSessions'[s].maxPages = crawlSessions[s].maxPages
            /\ crawlSessions'[s].maxDepth = crawlSessions[s].maxDepth
    ]_vars

\* a session that the crawl task, a page failure and a stop request have all
\* written to, with its configuration and its three records in place
C34_Witness ==
  /\ 1 \in DOMAIN crawlSessions
  /\ crawlSessions[1].url = SeedUrl
  /\ crawlSessions[1].maxPages = 3
  /\ crawlSessions[1].maxDepth = 2
  /\ crawlSessions[1].status = "stopped"
  /\ crawlSessions[1].totalPages = 3
  /\ task[1].pc = "done"
  /\ Len(crawledPages) = 3
  /\ crawledPages[1].url = crawledPages[2].url
  /\ crawledPages[1].statusCode # crawledPages[2].statusCode
  /\ lastResponse.op = "export"

\* C35: in every GetProgress response successful + errors = totalFound, and
\* for a session with a terminal status successful and errors equal the
\* session's successfulPages and errorPages.
C35_StatsPartition ==
  \A s \in DOMAIN crawlSessions :
    LET response == GetProgressResponse(s)
        stats == response.stats
    IN /\ stats.successful + stats.errors = stats.totalFound
       /\ response.session.status \in Terminal =>
            /\ stats.successful = response.session.successfulPages
            /\ stats.errors = response.session.errorPages

\* C36: after every step the page records of a session number its persisted
\* totalPages or one more, one more only while the task is between the commit
\* of a page record and the counter update that follows it, and exactly
\* totalPages once the task has terminated; no step decreases a persisted
\* counter.
C36_CountersTrackRecords ==
  [][\A s \in DOMAIN crawlSessions' :
       LET session == crawlSessions'[s]
           behind == Len(getCrawledPagesBySession(crawledPages', s)) - session.totalPages
       IN /\ behind \in {0, 1}
          /\ behind = 1 =>
               \/ task'[s].pc \in {"pageCreated", "pdfAdded", "catchPageCreated"}
               \/ task'[s].pc \in {"statsUpdated", "catchStatsUpdated"} /\ task'[s].exc
          /\ task'[s].pc \in {"done", "crashed"} => behind = 0
          /\ s \in DOMAIN crawlSessions =>
               /\ session.totalPages >= crawlSessions[s].totalPages
               /\ session.successfulPages >= crawlSessions[s].successfulPages
               /\ session.errorPages >= crawlSessions[s].errorPages
    ]_vars

\* C37: when no storage call rejects and every awaited fetch settles, every
\* session that was created eventually has status completed or stopped, no
\* registry entry and a crawl task at its end, and no task ever issues more
\* fetches than its maxPages.
C37_Terminates ==
  /\ \A s \in SessionIds :
       (s \in DOMAIN crawlSessions) ~>
         (/\ task[s].pc = "done"
          /\ crawlSessions[s].status \in {"completed", "stopped"}
          /\ s \notin DOMAIN activeCrawls)
  /\ [](\A s \in SessionIds : Len(task[s].fetched) <= task[s].maxPages)

\* a crawl of a site with link cycles that used its whole page budget, one
\* fetch failing, and ran to its end
C37_Witness ==
  /\ task[1].pc = "done"
  /\ crawlSessions[1].status = "completed"
  /\ 1 \notin DOMAIN activeCrawls
  /\ task[1].maxPages = 3
  /\ Len(task[1].fetched) = 3
  /\ task[1].errorPages >= 1
  /\ UrlA \in task[1].visited

\* C38: for a page recorded with a 2xx status whose hash computation failed
\* there is exactly one record of its URL in the session, with the status of
\* the response and no content hash; and at the end of the task the session's
\* successfulPages is the number of fetched URLs with a 2xx record and its
\* errorPages the number of fetched URLs without one.
C38_HashFailureKeepsPage ==
  \A s \in DOMAIN crawlSessions :
    LET pages == PagesOf(s)
        hashFailed == \E i \in 1..Len(pages) :
                        /\ Is2xx(pages[i].statusCode)
                        /\ Site(pages[i].url).ctype = "text/html"
                        /\ CheerioLoadThrows(Site(pages[i].url).body)
        with2xx == {u \in task[s].visited :
                      \E i \in 1..Len(pages) :
                        pages[i].url = u /\ Is2xx(pages[i].statusCode)}
    IN hashFailed =>
         /\ \A i, j \in 1..Len(pages) :
              (/\ CheerioLoadThrows(Site(pages[i].url).body)
               /\ pages[j].url = pages[i].url) =>
                 /\ i = j
                 /\ pages[i].statusCode = Some(Site(pages[i].url).status)
                 /\ pages[i].contentHash = Null
         /\ task[s].pc = "done" =>
              /\ crawlSessions[s].successfulPages = Cardinality(with2xx)
              /\ crawlSessions[s].errorPages = Cardinality(task[s].visited \ with2xx)

====
